---------------------------- MODULE Spec2Model ----------------------------
(***************************************************************************)
(* The Books REST router (routes file of mariantonieta/api-books): five    *)
(* Express handlers over one Firestore collection.  The state is the       *)
(* collection, the store's id generator and the requests in flight.  A     *)
(* step is one store call of one handler together with the synchronous     *)
(* code that follows it up to the next await (or the response).            *)
(*                                                                         *)
(* JSON strings are modelled by naturals (their order is the order of the  *)
(* strings); 0 stands for "field absent".                                  *)
(***************************************************************************)
EXTENDS Integers, Sequences, FiniteSets, TLC

(* ------------------------------ bounds -------------------------------- *)
\* number of requests the API receives in one behaviour
MaxReqs == 2
\* number of document ids the store hands out (those of the records found
\* at process start included)
MaxDocs == 2

(* ------------------------------ values -------------------------------- *)
ListLimit == 20

Absent == 0

Fields == {"id", "name", "author", "description"}

Reqs == 1..MaxReqs

DocIds == 1..MaxDocs

\* an identifier the store never generates: a path id that resolves to
\* nothing, and the value of a client-supplied "id" field
StrangerId == MaxDocs + 1

PathIds == DocIds \cup {StrangerId}

Book(i, n, a, d) == [id |-> i, name |-> n, author |-> a, description |-> d]

EmptyBody == Book(Absent, Absent, Absent, Absent)

\* {name, author, description}
WholeBook(n) == Book(Absent, n, 1, 1)

\* {name}
NameOnly(n) == Book(Absent, n, Absent, Absent)

\* the JSON objects clients send: a whole book, a name alone, an object
\* with its own id field, and {}
Bodies == {WholeBook(1), NameOnly(3), Book(StrangerId, 2, Absent, Absent), EmptyBody}

\* the collection found at process start: up to MaxDocs books created by
\* earlier runs, their names not in the order of their ids
InitStores == {[i \in 1..k |-> WholeBook(1 + (i % 2))] : k \in 0..MaxDocs}

(* --------------------------- the document store ------------------------ *)
\* doc(id).get(): doc.exists
Exists(st, id) == id \in DOMAIN st

\* doc(id).update(data) throws without writing when the document is
\* missing (NOT_FOUND) and when data has no field
UpdateRejected(st, id, data) == ~Exists(st, id) \/ data = EmptyBody

\* a mutant: update that writes the fields of a missing document too
UpsertDoc(st, id, data) ==
    IF Exists(st, id)
    THEN [st EXCEPT ![id] = [f \in Fields |->
                                IF data[f] # Absent THEN data[f] ELSE @[f]]]
    ELSE (id :> data) @@ st

\* a mutant: update that replaces the document by the data
ReplaceDoc(st, id, data) ==
    IF Exists(st, id) THEN [st EXCEPT ![id] = data] ELSE st

\* a mutant: update that keeps the fields the document already has
KeepExisting(st, id, data) ==
    IF ~Exists(st, id) \/ data = EmptyBody
    THEN st
    ELSE [st EXCEPT ![id] = [f \in Fields |->
                                IF @[f] # Absent THEN @[f] ELSE data[f]]]

\* doc(id).update(data): the fields of data overwrite the document's
StoreUpdate(st, id, data) ==
    IF UpdateRejected(st, id, data)
    THEN st
    ELSE [st EXCEPT ![id] = [f \in Fields |->
                                IF data[f] # Absent THEN data[f] ELSE @[f]]]

\* a mutant: add that writes over the first document
AddOverFirst(st, id, data) == (1 :> data) @@ st

\* a mutant: delete that empties the collection
DropAll(st, id) == <<>>

\* collection.add(data): a new document under a generated id
StoreAdd(st, id, data) == (id :> data) @@ st

\* doc(id).delete(): succeeds whether or not the document exists
StoreDelete(st, id) == [i \in DOMAIN st \ {id} |-> st[i]]

\* orderBy('name'): name ascending, ties by document id; a document
\* without the field is not part of an ordered query
Before(st, i, j) ==
    \/ st[i].name < st[j].name
    \/ st[i].name = st[j].name /\ i < j

RECURSIVE Ordered(_, _)
Ordered(st, S) ==
    IF S = {} THEN <<>>
    ELSE LET m == CHOOSE i \in S : \A j \in S \ {i} : Before(st, i, j)
         IN  <<m>> \o Ordered(st, S \ {m})

Take(s, n) == IF Len(s) <= n THEN s ELSE SubSeq(s, 1, n)

\* collection.orderBy('name').limit(20).get(): the ids of the snapshot
StoreQuery(st) ==
    Take(Ordered(st, {i \in DOMAIN st : st[i].name # Absent}), ListLimit)

(* ------------------------------ responses ------------------------------ *)
\* { id: doc.id, ...data }: a field "id" of data overwrites doc.id
Spread(docId, data) ==
    [data EXCEPT !.id = IF data.id # Absent THEN data.id ELSE docId]

NotFound == "Book not found"
Updated == "Book updated successfully"
Deleted == "Book deleted successfully"
ServerError == "Internal Server Error"

\* a request the API has not received yet
NoReq ==
    [kind |-> "none", id |-> 0, body |-> EmptyBody, pc |-> "idle",
     found |-> FALSE, threw |-> "none", sent |-> 0, status |-> 0,
     msg |-> "", books |-> <<>>, docId |-> 0, framework |-> "none",
     seen |-> 0, raced |-> FALSE]

\* res.status(s).json({message: m})
Message(q, s, m) == [q EXCEPT !.pc = "done", !.sent = @ + 1, !.status = s, !.msg = m]

\* res.status(s).json(book) and res.json(books)
Json(q, s, bs) == [q EXCEPT !.pc = "done", !.sent = @ + 1, !.status = s, !.books = bs]

\* what Express does with a handler whose promise rejected: version 4 drops
\* the promise and the request stays unanswered, version 5 hands the error
\* to the default error handler (500, no JSON body)
Frameworks == {"unanswered", "default500"}

\* a mutant: the failure answered with the JSON envelope of the catch blocks
Enveloped(q, fw) ==
    [q EXCEPT !.pc = "done", !.threw = "unavailable", !.sent = @ + 1,
              !.status = 500, !.msg = ServerError]

\* a store call of a handler without try/catch threw: the handler ends
\* there, nothing sent, and its promise rejects
Rejected(q, fw) ==
    [q EXCEPT !.pc = "rejected", !.threw = "unavailable", !.framework = fw]

\* a mutant: no catch block, as in the other three handlers
Uncaught(q, why) == [q EXCEPT !.pc = "rejected", !.threw = why]

\* catch (error) { res.status(500).json({message: 'Internal Server Error'}) }
Caught(q, why) == Message([q EXCEPT !.threw = why], 500, ServerError)

VARIABLES store, nextId, reqs, removed, lastWrite

vars == <<store, nextId, reqs, removed, lastWrite>>

NoWrite == [by |-> 0, pre |-> EmptyBody]

Init ==
    /\ store \in InitStores
    /\ nextId = Cardinality(DOMAIN store) + 1
    /\ reqs = [r \in Reqs |-> NoReq]
    /\ removed = {}
    /\ lastWrite = [i \in DocIds |-> NoWrite]

\* requests arrive in the order of their index
Arrives(r) ==
    /\ reqs[r].pc = "idle"
    /\ r > 1 => reqs[r - 1].pc # "idle"

New(k, id, body) == [NoReq EXCEPT !.kind = k, !.id = id, !.body = body]


(* ------------------------------ handlers ------------------------------- *)
\* GET /books
ListBooks(r) ==
    /\ Arrives(r)
    /\ LET q == New("list", 0, EmptyBody)
           ids == StoreQuery(store)
       IN  \/ reqs' = [reqs EXCEPT ![r] =
                  Json(q, 200, [k \in 1..Len(ids) |-> Spread(ids[k], store[ids[k]])])]
           \/ \E fw \in Frameworks : reqs' = [reqs EXCEPT ![r] = Rejected(q, fw)]
    /\ UNCHANGED <<store, nextId, removed, lastWrite>>

\* GET /books/:id
GetBook(r, id) ==
    /\ Arrives(r)
    /\ LET q == [New("get", id, EmptyBody) EXCEPT !.found = Exists(store, id)]
       IN  \/ /\ ~Exists(store, id)
              /\ reqs' = [reqs EXCEPT ![r] = Message(q, 404, NotFound)]
           \/ /\ Exists(store, id)
              /\ reqs' = [reqs EXCEPT ![r] = Json(q, 200, <<Spread(id, store[id])>>)]
           \/ \E fw \in Frameworks :
                  reqs' = [reqs EXCEPT ![r] = Rejected([q EXCEPT !.found = FALSE], fw)]
    /\ UNCHANGED <<store, nextId, removed, lastWrite>>

\* POST /books
PostBook(r, body) ==
    /\ Arrives(r)
    /\ nextId <= MaxDocs
    /\ LET q == New("post", 0, body)
       IN  \/ /\ store' = StoreAdd(store, nextId, body)
              /\ nextId' = nextId + 1
              /\ lastWrite' = [lastWrite EXCEPT ![nextId] = [by |-> r, pre |-> EmptyBody]]
              /\ reqs' = [reqs EXCEPT ![r] =
                     Json([q EXCEPT !.docId = nextId], 201, <<Spread(nextId, body)>>)]
           \/ /\ \E fw \in Frameworks : reqs' = [reqs EXCEPT ![r] = Rejected(q, fw)]
              /\ UNCHANGED <<store, nextId, lastWrite>>
    /\ UNCHANGED removed

\* a mutant: no return after the 404
CheckNoReturn(r, k, id, body, next) ==
    /\ Arrives(r)
    /\ LET q == [New(k, id, body) EXCEPT !.found = Exists(store, id)]
       IN  \/ /\ ~Exists(store, id)
              /\ reqs' = [reqs EXCEPT ![r] =
                     [Message(q, 404, NotFound) EXCEPT !.pc = next]]
           \/ /\ Exists(store, id)
              /\ reqs' = [reqs EXCEPT ![r] =
                     [q EXCEPT !.pc = next, !.seen = lastWrite[id].by]]
           \/ reqs' = [reqs EXCEPT ![r] =
                  Caught([q EXCEPT !.found = FALSE], "unavailable")]
    /\ UNCHANGED <<store, nextId, removed, lastWrite>>

\* the existence check of PUT /books/:id and DELETE /books/:id
Check(r, k, id, body, next) ==
    /\ Arrives(r)
    /\ LET q == [New(k, id, body) EXCEPT !.found = Exists(store, id)]
       IN  \/ /\ ~Exists(store, id)
              /\ reqs' = [reqs EXCEPT ![r] = Message(q, 404, NotFound)]
           \/ /\ Exists(store, id)
              /\ reqs' = [reqs EXCEPT ![r] =
                     [q EXCEPT !.pc = next, !.seen = lastWrite[id].by]]
           \/ reqs' = [reqs EXCEPT ![r] =
                  Caught([q EXCEPT !.found = FALSE], "unavailable")]
    /\ UNCHANGED <<store, nextId, removed, lastWrite>>

\* history: whether another request wrote the record between the existence
\* check of q and the step q takes now
Overtaken(q) == [q EXCEPT !.raced = (lastWrite[q.id].by # q.seen)]

\* PUT /books/:id up to the update
PutCheck(r, id, body) == Check(r, "put", id, body, "update")

\* PUT /books/:id from the update on
PutUpdate(r) ==
    /\ reqs[r].pc = "update"
    /\ LET q == Overtaken(reqs[r])
       IN  \/ /\ store' = StoreUpdate(store, q.id, q.body)
              /\ IF UpdateRejected(store, q.id, q.body)
                 THEN /\ reqs' = [reqs EXCEPT ![r] = Caught(q, "rejected")]
                      /\ UNCHANGED lastWrite
                 ELSE /\ reqs' = [reqs EXCEPT ![r] = Message(q, 200, Updated)]
                      /\ lastWrite' = [lastWrite EXCEPT ![q.id] =
                                          [by |-> r, pre |-> store[q.id]]]
           \/ /\ reqs' = [reqs EXCEPT ![r] = Caught(q, "unavailable")]
              /\ UNCHANGED <<store, lastWrite>>
    /\ UNCHANGED <<nextId, removed>>

\* DELETE /books/:id up to the delete
DeleteCheck(r, id) == Check(r, "delete", id, EmptyBody, "delete")

\* DELETE /books/:id from the delete on
DeleteDoc(r) ==
    /\ reqs[r].pc = "delete"
    /\ LET q == Overtaken(reqs[r])
       IN  \/ /\ store' = StoreDelete(store, q.id)
              /\ removed' = IF Exists(store, q.id) THEN removed \cup {q.id} ELSE removed
              /\ lastWrite' = [lastWrite EXCEPT ![q.id] =
                     [by |-> r,
                      pre |-> IF Exists(store, q.id) THEN store[q.id] ELSE EmptyBody]]
              /\ reqs' = [reqs EXCEPT ![r] = Message(q, 200, Deleted)]
           \/ /\ reqs' = [reqs EXCEPT ![r] = Caught(q, "unavailable")]
              /\ UNCHANGED <<store, removed, lastWrite>>
    /\ UNCHANGED nextId

Next ==
    \E r \in Reqs :
        \/ ListBooks(r)
        \/ \E id \in PathIds : GetBook(r, id)
        \/ \E body \in Bodies : PostBook(r, body)
        \/ \E id \in PathIds, body \in Bodies : PutCheck(r, id, body)
        \/ PutUpdate(r)
        \/ \E id \in PathIds : DeleteCheck(r, id)
        \/ DeleteDoc(r)

Spec == Init /\ [][Next]_vars

(* ------------------------------- claims -------------------------------- *)
\* request r takes its first step: its first store call, and what follows
Received(r, k) == reqs[r].pc = "idle" /\ reqs'[r].kind = k

\* the store call of this step returned (it did not throw for want of the store)
Returned(r) == reqs'[r].threw # "unavailable"

\* a body {name, author, description}
IsWholeBook(b) ==
    b.id = Absent /\ b.name # Absent /\ b.author # Absent /\ b.description # Absent

\* a body {name: X}
IsNameOnly(b) ==
    b.id = Absent /\ b.name # Absent /\ b.author = Absent /\ b.description = Absent

\* every record but that of id is the same before and after the step
OthersKept(id) ==
    \A i \in DOMAIN store \ {id} : i \in DOMAIN store' /\ store'[i] = store[i]

\* C1 (as claimed): a GET /books/:id on an id that an earlier POST returned
\* in its 201 body, and that no DELETE has removed, responds 200 with a body
\* whose id is that id, whatever JSON object the POST was given.
C1_GetReturnsPostedId ==
    \A p \in Reqs, g \in Reqs :
        (/\ p < g
         /\ reqs[p].kind = "post" /\ reqs[p].status = 201
         /\ reqs[g].kind = "get" /\ reqs[g].threw = "none" /\ reqs[g].pc # "idle"
         /\ reqs[g].id = reqs[p].books[1].id
         /\ reqs[g].id \notin removed)
            => (reqs[g].status = 200 /\ reqs[g].books[1].id = reqs[g].id)

\* C2: a POST /books whose body is {name, author, description} and whose add
\* returned responds 201 once with a body whose id is the key of the one
\* record the store gained, a key the store did not hold before, and whose
\* name, author and description are the body's; the record stored is the
\* body and every earlier record is unchanged.
C2_PostCreatesOne ==
    [][\A r \in Reqs :
          (Received(r, "post") /\ Returned(r) /\ IsWholeBook(reqs'[r].body))
              => /\ reqs'[r].pc = "done" /\ reqs'[r].sent = 1
                 /\ reqs'[r].status = 201 /\ Len(reqs'[r].books) = 1
                 /\ LET b == reqs'[r].books[1]
                        body == reqs'[r].body
                    IN  /\ b.id \notin DOMAIN store
                        /\ DOMAIN store' = DOMAIN store \cup {b.id}
                        /\ store'[b.id] = body
                        /\ b.name = body.name
                        /\ b.author = body.author
                        /\ b.description = body.description
                        /\ OthersKept(b.id)]_vars

C2_Witness ==
    \E r \in Reqs :
        /\ reqs[r].kind = "post" /\ reqs[r].status = 201
        /\ reqs[r].body = WholeBook(1)
        /\ reqs[r].books[1].id = 2
        /\ DOMAIN store = {1, 2}

\* C3: a PUT /books/:id with body {name: X} whose update call returned on a
\* record that exists responds 200 {message: "Book updated successfully"}
\* and changes no other record; a GET /books/:id that reads the record while
\* that PUT is still the last mutation of the id returns 200 with name = X
\* and every other field as a GET would have returned it before the PUT.
C3_PutThenGet ==
    [][\A r \in Reqs :
          /\ (/\ reqs[r].pc = "update" /\ reqs'[r].pc = "done" /\ Returned(r)
              /\ Exists(store, reqs[r].id) /\ IsNameOnly(reqs[r].body))
                 => /\ reqs'[r].status = 200 /\ reqs'[r].msg = Updated
                    /\ reqs'[r].sent = 1
                    /\ DOMAIN store' = DOMAIN store
                    /\ OthersKept(reqs[r].id)
          /\ (/\ Received(r, "get") /\ Returned(r)
              /\ reqs'[r].id \in DocIds
              /\ lastWrite[reqs'[r].id].by # 0
              /\ reqs[lastWrite[reqs'[r].id].by].kind = "put"
              /\ IsNameOnly(reqs[lastWrite[reqs'[r].id].by].body))
                 => LET id == reqs'[r].id
                        w == lastWrite[id]
                    IN  /\ reqs'[r].status = 200
                        /\ reqs'[r].books =
                               <<[Spread(id, w.pre) EXCEPT !.name = reqs[w.by].body.name]>>]_vars

C3_Witness ==
    \E p \in Reqs, g \in Reqs :
        /\ p < g
        /\ reqs[p].kind = "put" /\ reqs[p].status = 200 /\ reqs[p].body = NameOnly(3)
        /\ reqs[g].kind = "get" /\ reqs[g].id = reqs[p].id /\ reqs[g].status = 200
        /\ reqs[g].books[1] = Book(reqs[g].id, 3, 1, 1)
        /\ Cardinality(DOMAIN store) = 2

\* C4: a DELETE /books/:id that passed its existence check and whose delete
\* call returned responds 200 {message: "Book deleted successfully"}, the id
\* is then absent from the store and every other record is unchanged; every
\* GET /books/:id that reads after an id was removed responds 404
\* {message: "Book not found"}.
C4_DeleteThenGet ==
    [][\A r \in Reqs :
          /\ (reqs[r].pc = "delete" /\ reqs'[r].pc = "done" /\ Returned(r))
                 => /\ reqs'[r].status = 200 /\ reqs'[r].msg = Deleted
                    /\ reqs'[r].sent = 1
                    /\ reqs[r].id \notin DOMAIN store'
                    /\ DOMAIN store' = DOMAIN store \ {reqs[r].id}
                    /\ OthersKept(reqs[r].id)
          /\ (Received(r, "get") /\ Returned(r) /\ reqs'[r].id \in removed)
                 => /\ reqs'[r].status = 404 /\ reqs'[r].msg = NotFound
                    /\ reqs'[r].books = <<>>]_vars

C4_Witness ==
    \E d \in Reqs, g \in Reqs :
        /\ d < g
        /\ reqs[d].kind = "delete" /\ reqs[d].status = 200 /\ reqs[d].msg = Deleted
        /\ reqs[g].kind = "get" /\ reqs[g].id = reqs[d].id /\ reqs[g].status = 404
        /\ store # <<>>

\* C5: a GET, PUT or DELETE /books/:id whose existence check returns and finds
\* no record responds 404 {message: "Book not found"} once, ends there (it
\* never reaches its update or delete call) and leaves the store as it was.
C5_NotFoundNoMutation ==
    [][\A r \in Reqs :
          /\ (/\ reqs[r].pc = "idle"
              /\ reqs'[r].kind \in {"get", "put", "delete"}
              /\ Returned(r)
              /\ reqs'[r].id \notin DOMAIN store)
                 => /\ reqs'[r].pc = "done" /\ reqs'[r].sent = 1
                    /\ reqs'[r].status = 404 /\ reqs'[r].msg = NotFound
                    /\ reqs'[r].books = <<>>
                    /\ store' = store
          /\ reqs[r].status = 404 => reqs'[r] = reqs[r]]_vars

C5_Witness ==
    \E p \in Reqs, d \in Reqs :
        /\ reqs[p].kind = "put" /\ reqs[p].status = 404 /\ reqs[p].body # EmptyBody
        /\ reqs[d].kind = "delete" /\ reqs[d].status = 404
        /\ store \in InitStores /\ store # <<>>

Min(a, b) == IF a <= b THEN a ELSE b

\* C6 (as claimed): GET /books responds 200 with at most 20 records sorted by
\* name ascending, each the stored record under its store identifier as id,
\* and they are the first 20 by name of all the records of the store (none
\* when the store is empty); the store is unchanged.
C6_ListFirstTwenty ==
    [][\A r \in Reqs :
          (Received(r, "list") /\ Returned(r))
              => LET bs == reqs'[r].books
                     ks == 1..Len(bs)
                 IN  /\ reqs'[r].status = 200
                     /\ Len(bs) = Min(ListLimit, Cardinality(DOMAIN store))
                     /\ \A k \in ks : k < Len(bs) => bs[k].name <= bs[k + 1].name
                     /\ \A k \in ks, l \in ks : k # l => bs[k].id # bs[l].id
                     /\ \A k \in ks :
                            /\ bs[k].id \in DOMAIN store
                            /\ bs[k] = [store[bs[k].id] EXCEPT !.id = bs[k].id]
                     /\ \A i \in DOMAIN store \ {bs[k].id : k \in ks} :
                            \A k \in ks : bs[k].name <= store[i].name
                     /\ store' = store]_vars

\* C7: a PUT or DELETE /books/:id one of whose store calls threw (the
\* existence check, or the update or delete itself) has answered exactly
\* once, with 500 {message: "Internal Server Error"}; no PUT or DELETE sends
\* two responses, ends without one, or lets the failure leave the handler.
C7_CaughtOnce ==
    \A r \in Reqs :
        reqs[r].kind \in {"put", "delete"}
            => /\ reqs[r].sent <= 1
               /\ reqs[r].pc \in {"update", "delete", "done"}
               /\ reqs[r].pc = "done" => reqs[r].sent = 1
               /\ reqs[r].threw # "none"
                      => /\ reqs[r].pc = "done" /\ reqs[r].sent = 1
                         /\ reqs[r].status = 500 /\ reqs[r].msg = ServerError
                         /\ reqs[r].books = <<>>

C7_Witness ==
    \E p \in Reqs, d \in Reqs :
        /\ reqs[p].kind = "put" /\ reqs[p].found /\ reqs[p].threw = "unavailable"
        /\ reqs[p].status = 500
        /\ reqs[d].kind = "delete" /\ ~reqs[d].found /\ reqs[d].threw = "unavailable"
        /\ reqs[d].status = 500

Racing(p, q) ==
    /\ p # q
    /\ reqs[p].id = reqs[q].id
    /\ \A r \in {p, q} :
           /\ reqs[r].kind \in {"put", "delete"}
           /\ reqs[r].found /\ reqs[r].pc = "done"
           /\ reqs[r].threw # "unavailable"
           /\ reqs[r].kind = "put" => reqs[r].body # EmptyBody
    /\ reqs[p].raced \/ reqs[q].raced

C10_NeverResurrected ==
    [][/\ \A i \in DOMAIN store' \ DOMAIN store :
              /\ i \notin removed
              /\ i >= nextId
              /\ \E r \in Reqs : Received(r, "post") /\ reqs'[r].docId = i
       /\ removed \subseteq removed'
       /\ removed' \cap DOMAIN store' = {}
       /\ \A r \in Reqs :
              (Received(r, "get") /\ Returned(r) /\ reqs'[r].id \in removed)
                  => reqs'[r].status = 404]_vars

C10_Witness ==
    \E p \in Reqs, d \in Reqs :
        /\ reqs[p].kind = "put" /\ reqs[p].found /\ reqs[p].raced
        /\ reqs[p].status = 500 /\ reqs[p].threw = "rejected"
        /\ reqs[d].kind = "delete" /\ reqs[d].id = reqs[p].id /\ reqs[d].status = 200
        /\ reqs[p].id \in removed
        /\ reqs[p].id \notin DOMAIN store

=============================================================================
